---------------------------- MODULE Spec2Model ----------------------------
(***************************************************************************)
(* Model of the identity matching core of my_project: the Arabic           *)
(* normalizer (utils/normalization.rs), the Aramix Soundex encoder         *)
(* (utils/phonetic.rs), the pair scorer and candidate filter               *)
(* (utils/matching.rs), the loader (utils/loader.rs) and the HTTP match    *)
(* handler (main.rs).                                                      *)
(*                                                                         *)
(* A Rust String is modelled as the sequence of its Unicode scalar values  *)
(* (code points, as integers); byte lengths are derived from the UTF-8     *)
(* width of each code point, because str::len and String::truncate count   *)
(* bytes while chars(), strsim::jaro and strsim::levenshtein count scalar  *)
(* values.  f64 scores are modelled as exact rationals [n, d].             *)
(***************************************************************************)
EXTENDS Integers, Sequences, FiniteSets

(***************************************************************************)
(* Code points of the characters the source names.                         *)
(***************************************************************************)
HAMZA == 1569
ALEF_MADDA == 1570
ALEF_HAMZA_ABOVE == 1571
WAW_HAMZA == 1572
ALEF_HAMZA_BELOW == 1573
YEH_HAMZA == 1574
ALEF == 1575
BEH == 1576
TEH_MARBUTA == 1577
TEH == 1578
JEEM == 1580
HAH == 1581
KHAH == 1582
DAL == 1583
REH == 1585
ZAIN == 1586
SEEN == 1587
SHEEN == 1588
SAD == 1589
DAD == 1590
TAH == 1591
ZAH == 1592
AIN == 1593
GHAIN == 1594
FEH == 1601
QAF == 1602
KAF == 1603
LAM == 1604
MEEM == 1605
NOON == 1606
HEH == 1607
WAW == 1608
ALEF_MAKSURA == 1609
YEH == 1610
FATHATAN == 1611
DAMMATAN == 1612
KASRATAN == 1613
FATHA == 1614
DAMMA == 1615
KASRA == 1616
SHADDA == 1617
SUKUN == 1618
LAM_ALEF_MADDA_ISOLATED == 65269
LAM_ALEF_HAMZA_ABOVE_ISOLATED == 65271
LAM_ALEF_HAMZA_BELOW_ISOLATED == 65273
LAM_ALEF_ISOLATED == 65275
\* the ASCII digit '0'; digit d of a Soundex code is the character DIGIT_ZERO + d
DIGIT_ZERO == 48

(***************************************************************************)
(* Strings.                                                                *)
(***************************************************************************)
\* UTF-8 width of one scalar value
Utf8Len(c) == IF c < 128 THEN 1 ELSE IF c < 2048 THEN 2 ELSE IF c < 65536 THEN 3 ELSE 4

RECURSIVE ByteLen(_)
\* str::len(): the length in bytes
ByteLen(s) == IF s = <<>> THEN 0 ELSE Utf8Len(Head(s)) + ByteLen(Tail(s))

RECURSIVE Replace(_, _, _)
\* str::replace(from, to) for a one-character pattern
Replace(s, from, to) ==
    IF s = <<>> THEN <<>>
    ELSE (IF Head(s) = from THEN to ELSE <<Head(s)>>) \o Replace(Tail(s), from, to)

\* str::starts_with
starts_with(s, p) == Len(s) >= Len(p) /\ SubSeq(s, 1, Len(p)) = p

\* all strings over alphabet A of at most n characters
StringsUpTo(A, n) == UNION {[1..k -> A] : k \in 0..n}

MinOf(S) == CHOOSE x \in S : \A y \in S : x <= y

(***************************************************************************)
(* utils/normalization.rs                                                  *)
(***************************************************************************)
\* a variant of normalize_arabic that expands the lam-alef-hamza ligature to its
\* canonical decomposition lam + alef-with-hamza, after the hamza replacement ran
normalize_arabic_decomposing(text) ==
    LET s1 == Replace(text, TEH_MARBUTA, <<HEH>>)
        s2 == Replace(s1, ALEF_MAKSURA, <<YEH>>)
        s3 == Replace(s2, ALEF_HAMZA_ABOVE, <<ALEF>>)
        s4 == Replace(s3, ALEF_HAMZA_BELOW, <<ALEF>>)
        s5 == Replace(s4, WAW_HAMZA, <<WAW>>)
        s6 == Replace(s5, YEH_HAMZA, <<YEH>>)
        s7 == Replace(s6, LAM_ALEF_HAMZA_ABOVE_ISOLATED, <<LAM, ALEF_HAMZA_ABOVE>>)
        s8 == Replace(s7, LAM_ALEF_MADDA_ISOLATED, <<LAM, ALEF>>)
        s9 == Replace(s8, LAM_ALEF_HAMZA_BELOW_ISOLATED, <<LAM, ALEF>>)
    IN  Replace(s9, LAM_ALEF_ISOLATED, <<LAM, ALEF>>)

normalize_arabic(text) ==
    LET s1 == Replace(text, TEH_MARBUTA, <<HEH>>)
        s2 == Replace(s1, ALEF_MAKSURA, <<YEH>>)
        s3 == Replace(s2, ALEF_HAMZA_ABOVE, <<ALEF>>)
        s4 == Replace(s3, ALEF_HAMZA_BELOW, <<ALEF>>)
        s5 == Replace(s4, WAW_HAMZA, <<WAW>>)
        s6 == Replace(s5, YEH_HAMZA, <<YEH>>)
        s7 == Replace(s6, LAM_ALEF_HAMZA_ABOVE_ISOLATED, <<LAM, ALEF>>)
        s8 == Replace(s7, LAM_ALEF_MADDA_ISOLATED, <<LAM, ALEF>>)
        s9 == Replace(s8, LAM_ALEF_HAMZA_BELOW_ISOLATED, <<LAM, ALEF>>)
    IN  Replace(s9, LAM_ALEF_ISOLATED, <<LAM, ALEF>>)

diacritics == <<FATHA, FATHATAN, DAMMA, DAMMATAN, KASRA, KASRATAN, SHADDA, SUKUN>>

RECURSIVE RemoveFrom(_, _)
\* the loop of remove_diacritics, from the i-th diacritic on
RemoveFrom(result, i) ==
    IF i > Len(diacritics) THEN result
    ELSE RemoveFrom(Replace(result, diacritics[i], <<>>), i + 1)

remove_diacritics(text) == RemoveFrom(text, 1)

prefixes ==
    << <<ALEF, LAM>>, <<BEH, NOON>>, <<ALEF, BEH, NOON>>, <<BEH, NOON, TEH>>,
       <<ALEF_HAMZA_ABOVE, BEH, WAW>>, <<ALEF_HAMZA_ABOVE, MEEM>> >>

\* a variant of standardize_prefixes that removes the longest matching prefix
standardize_prefixes_longest(text) ==
    LET hits == {i \in 1..Len(prefixes) : starts_with(text, prefixes[i])}
        longest == CHOOSE i \in hits : \A j \in hits : Len(prefixes[j]) <= Len(prefixes[i])
    IN  IF hits = {} THEN text
        ELSE SubSeq(text, Len(prefixes[longest]) + 1, Len(text))

\* the first prefix of the list that matches is removed, then the loop breaks
standardize_prefixes(text) ==
    LET hits == {i \in 1..Len(prefixes) : starts_with(text, prefixes[i])}
    IN  IF hits = {} THEN text
        ELSE SubSeq(text, Len(prefixes[MinOf(hits)]) + 1, Len(text))

\* a variant of the Normalizer that strips the prefix before the diacritics
NormalizePrefixFirst(s) == normalize_arabic(remove_diacritics(standardize_prefixes(s)))

\* a variant of the Normalizer that strips the prefix before the letters are
\* unified
NormalizeUnifyLast(s) == normalize_arabic(standardize_prefixes(remove_diacritics(s)))

\* normalize_fn of match_identity, normalize of the loader
Normalize(s) == standardize_prefixes(normalize_arabic(remove_diacritics(s)))

(***************************************************************************)
(* utils/phonetic.rs                                                       *)
(***************************************************************************)
\* a variant of normalize_arabic_letters that leaves alef with madda alone
normalize_arabic_letters_without_madda(input) ==
    LET s1 == Replace(input, ALEF_HAMZA_ABOVE, <<ALEF>>)
        s2 == Replace(s1, ALEF_HAMZA_BELOW, <<ALEF>>)
        s4 == Replace(s2, ALEF_MAKSURA, <<YEH>>)
        s5 == Replace(s4, YEH_HAMZA, <<YEH>>)
        s6 == Replace(s5, WAW_HAMZA, <<WAW>>)
        s7 == Replace(s6, TEH_MARBUTA, <<HEH>>)
        s8 == Replace(s7, HAMZA, <<>>)
    IN  remove_diacritics(s8)

normalize_arabic_letters(input) ==
    LET s1 == Replace(input, ALEF_HAMZA_ABOVE, <<ALEF>>)
        s2 == Replace(s1, ALEF_HAMZA_BELOW, <<ALEF>>)
        s3 == Replace(s2, ALEF_MADDA, <<ALEF>>)
        s4 == Replace(s3, ALEF_MAKSURA, <<YEH>>)
        s5 == Replace(s4, YEH_HAMZA, <<YEH>>)
        s6 == Replace(s5, WAW_HAMZA, <<WAW>>)
        s7 == Replace(s6, TEH_MARBUTA, <<HEH>>)
        s8 == Replace(s7, HAMZA, <<>>)
        s9 == Replace(s8, FATHA, <<>>)
        s10 == Replace(s9, FATHATAN, <<>>)
        s11 == Replace(s10, DAMMA, <<>>)
        s12 == Replace(s11, DAMMATAN, <<>>)
        s13 == Replace(s12, KASRA, <<>>)
        s14 == Replace(s13, KASRATAN, <<>>)
        s15 == Replace(s14, SUKUN, <<>>)
    IN  Replace(s15, SHADDA, <<>>)

\* the match of get_code: the digit class of a character, 0 for any other
SoundexDigit(c) ==
    CASE c \in {BEH, FEH} -> 1
      [] c \in {JEEM, KAF, QAF} -> 2
      [] c \in {DAL, TEH, DAD} -> 3
      [] c \in {REH, LAM, NOON} -> 4
      [] c \in {SEEN, SHEEN, ZAIN} -> 5
      [] c \in {TAH, ZAH, SAD} -> 6
      [] c \in {AIN, GHAIN, HAH} -> 7
      [] c \in {KHAH, HEH} -> 8
      [] c \in {MEEM, WAW} -> 9
      [] OTHER -> 0

RECURSIVE PushDigitsRestarting(_, _, _)
\* a variant of the loop of get_code in which a character without a digit
\* ends the run: last_digit goes back to 0
PushDigitsRestarting(rest, code, last_digit) ==
    IF rest = <<>> THEN code
    ELSE LET digit == SoundexDigit(Head(rest))
         IN  IF digit # 0 /\ digit # last_digit
             THEN PushDigitsRestarting(Tail(rest), Append(code, DIGIT_ZERO + digit), digit)
             ELSE PushDigitsRestarting(Tail(rest), code, IF digit = 0 THEN 0 ELSE last_digit)

RECURSIVE PushDigits(_, _, _)
\* the loop of get_code over the characters after the first: code and
\* last_digit are the loop's two variables
PushDigits(rest, code, last_digit) ==
    IF rest = <<>> THEN code
    ELSE LET digit == SoundexDigit(Head(rest))
         IN  IF digit # 0 /\ digit # last_digit
             THEN PushDigits(Tail(rest), Append(code, DIGIT_ZERO + digit), digit)
             ELSE PushDigits(Tail(rest), code, last_digit)

\* get_code before its final truncate
UntruncatedCode(name) ==
    IF name = <<>> THEN <<>> ELSE PushDigits(Tail(name), <<Head(name)>>, 0)

\* the value that stands for a panic of the calling thread
Panic == <<-1>>

\* a variant of String::truncate that counts characters
TruncateChars(s, new_len) == SubSeq(s, 1, IF Len(s) < new_len THEN Len(s) ELSE new_len)

\* String::truncate(new_len): new_len counts bytes; no effect when the string is
\* not longer, a panic when new_len is not on a character boundary
truncate(s, new_len) ==
    IF ByteLen(s) <= new_len THEN s
    ELSE LET cuts == {k \in 0..Len(s) : ByteLen(SubSeq(s, 1, k)) = new_len}
         IN  IF cuts = {} THEN Panic ELSE SubSeq(s, 1, MinOf(cuts))

\* a variant of get_code that never pushes the first letter
get_code_without_first_letter(name) ==
    truncate(IF name = <<>> THEN <<>> ELSE PushDigits(Tail(name), <<>>, 0), 4)

get_code(name) == truncate(UntruncatedCode(name), 4)

aramix_soundex(name) == get_code(normalize_arabic_letters(name))

(***************************************************************************)
(* utils/matching.rs: the candidate filter.                                *)
(* The details tuples (six names, dob, sex, place) are records here; an    *)
(* Option is None or its value.  Years are u32 cast to i32; the model      *)
(* holds years below 2^31, where the cast and the subtraction are exact.   *)
(***************************************************************************)
None == <<>>

Abs(x) == IF x < 0 THEN -x ELSE x

\* a variant of should_consider_candidate whose year window is ten years wide
\* exclusive
should_consider_candidate_exclusive(input_details, candidate_details) ==
    IF input_details.sex # candidate_details.sex THEN FALSE
    ELSE IF /\ input_details.dob # None
            /\ candidate_details.dob # None
            /\ Abs(input_details.dob[3] - candidate_details.dob[3]) >= 10
         THEN FALSE
    ELSE IF aramix_soundex(input_details.last_name)
               # aramix_soundex(candidate_details.last_name)
         THEN FALSE
    ELSE TRUE

should_consider_candidate(input_details, candidate_details) ==
    IF input_details.sex # candidate_details.sex THEN FALSE
    ELSE IF /\ input_details.dob # None
            /\ candidate_details.dob # None
            /\ Abs(input_details.dob[3] - candidate_details.dob[3]) > 10
         THEN FALSE
    ELSE IF aramix_soundex(input_details.last_name)
               # aramix_soundex(candidate_details.last_name)
         THEN FALSE
    ELSE TRUE

(***************************************************************************)
(* Scores.  An f64 (or f32) score is an exact rational <<n, d>>, n >= 0,   *)
(* d > 0, in lowest terms.                                                 *)
(***************************************************************************)
RECURSIVE GCD(_, _)
GCD(a, b) == IF b = 0 THEN a ELSE GCD(b, a % b)

Rat(n, d) == LET g == GCD(n, d) IN <<n \div g, d \div g>>

RAdd(x, y) ==
    LET g == GCD(x[2], y[2])
    IN  Rat(x[1] * (y[2] \div g) + y[1] * (x[2] \div g), x[2] * (y[2] \div g))

RMul(x, y) ==
    LET a == Rat(x[1], y[2])
        b == Rat(y[1], x[2])
    IN  <<a[1] * b[1], a[2] * b[2]>>

RDiv(x, y) == RMul(x, <<y[2], y[1]>>)

RLess(x, y) == x[1] * y[2] < y[1] * x[2]

RMin(x, y) == IF RLess(y, x) THEN y ELSE x

\* (x * 100.0).round(): f64::round rounds half away from zero
RoundPercent(x) == (200 * x[1] + x[2]) \div (2 * x[2])

Max2(a, b) == IF a < b THEN b ELSE a
Min2(a, b) == IF a < b THEN a ELSE b

(***************************************************************************)
(* strsim::jaro and strsim::levenshtein as matching.rs calls them: both    *)
(* iterate the chars() of their arguments.                                 *)
(***************************************************************************)
RECURSIVE JaroFlags(_, _, _, _, _, _)
\* the matching loop of jaro from position i of a on (1-based): a_flags and
\* b_flags are the sets of positions matched so far
JaroFlags(a, b, search_range, i, a_flags, b_flags) ==
    IF i > Len(a) THEN <<a_flags, b_flags>>
    ELSE LET min_bound == IF i - 1 > search_range THEN i - 1 - search_range ELSE 0
             max_bound == Min2(Len(b), i + search_range)
             hits == {j \in (min_bound + 1)..max_bound : b[j] = a[i] /\ j \notin b_flags}
         IN  IF hits = {} THEN JaroFlags(a, b, search_range, i + 1, a_flags, b_flags)
             ELSE JaroFlags(a, b, search_range, i + 1,
                            a_flags \cup {i}, b_flags \cup {MinOf(hits)})

RECURSIVE Flagged(_, _, _)
\* the flagged characters of s from position i on, in order
Flagged(s, flags, i) ==
    IF i > Len(s) THEN <<>>
    ELSE (IF i \in flags THEN <<s[i]>> ELSE <<>>) \o Flagged(s, flags, i + 1)

jaro(a, b) ==
    IF Len(a) = 0 /\ Len(b) = 0 THEN <<1, 1>>
    ELSE IF Len(a) = 0 \/ Len(b) = 0 THEN <<0, 1>>
    ELSE LET half == Max2(Len(a), Len(b)) \div 2
             search_range == IF half = 0 THEN 0 ELSE half - 1
             flags == JaroFlags(a, b, search_range, 1, {}, {})
             matches == Cardinality(flags[1])
             am == Flagged(a, flags[1], 1)
             bm == Flagged(b, flags[2], 1)
             transpositions == Cardinality({k \in 1..matches : am[k] # bm[k]}) \div 2
         IN  IF matches = 0 THEN <<0, 1>>
             ELSE RMul(RAdd(RAdd(Rat(matches, Len(a)), Rat(matches, Len(b))),
                            Rat(matches - transpositions, matches)),
                       <<1, 3>>)

RECURSIVE LevFill(_, _, _, _)
\* one row of the edit-distance table: cur holds its cells 0..Len(cur)-1
LevFill(prev, ch, b, cur) ==
    IF Len(cur) = Len(b) + 1 THEN cur
    ELSE LET j == Len(cur)
             subst == prev[j] + (IF ch = b[j] THEN 0 ELSE 1)
         IN  LevFill(prev, ch, b,
                     Append(cur, Min2(Min2(prev[j + 1] + 1, cur[j] + 1), subst)))

RECURSIVE LevRows(_, _, _)
LevRows(a, b, prev) ==
    IF a = <<>> THEN prev[Len(b) + 1]
    ELSE LevRows(Tail(a), b, LevFill(prev, Head(a), b, <<prev[1] + 1>>))

levenshtein(a, b) == LevRows(a, b, [j \in 1..(Len(b) + 1) |-> j - 1])

(***************************************************************************)
(* utils/matching.rs: the pair scorer.                                     *)
(***************************************************************************)
\* a variant of score_pair_with_soundex whose edit distance is not capped at
\* the length of the first string
score_pair_uncapped_distance(norm_s1, norm_s2) ==
    LET j == jaro(norm_s1, norm_s2)
        denom == Max2(ByteLen(norm_s1), 1)
        lev == Rat(denom - levenshtein(norm_s1, norm_s2), denom)
        base_score == RMul(RMul(RAdd(j, lev), <<1, 2>>), <<4, 5>>)
        bonus == IF aramix_soundex(norm_s1) = aramix_soundex(norm_s2)
                 THEN <<1, 5>> ELSE <<0, 1>>
    IN  RMin(RAdd(base_score, bonus), <<1, 1>>)

score_pair_with_soundex(norm_s1, norm_s2) ==
    LET j == jaro(norm_s1, norm_s2)
        denom == Max2(ByteLen(norm_s1), 1)
        lev == Rat(denom - Min2(levenshtein(norm_s1, norm_s2), ByteLen(norm_s1)), denom)
        base_score == RMul(RMul(RAdd(j, lev), <<1, 2>>), <<4, 5>>)
        bonus == IF aramix_soundex(norm_s1) = aramix_soundex(norm_s2)
                 THEN <<1, 5>> ELSE <<0, 1>>
    IN  RMin(RAdd(base_score, bonus), <<1, 1>>)

combo(norm_a, norm_b) ==
    LET p == IF aramix_soundex(norm_a) = aramix_soundex(norm_b) THEN <<1, 1>> ELSE <<0, 1>>
        j == jaro(norm_a, norm_b)
    IN  RMul(RAdd(p, j), <<1, 2>>)

RECURSIVE BestFromRaw(_, _, _)
\* a variant of the loop that compares the input with the variation as stored,
\* without normalizing it
BestFromRaw(norm_input, variations, best) ==
    IF variations = <<>> THEN best
    ELSE LET s == score_pair_with_soundex(norm_input, Head(variations))
         IN  BestFromRaw(norm_input, Tail(variations), IF RLess(best, s) THEN s ELSE best)

RECURSIVE BestFrom(_, _, _)
\* the while loop of best_score_against_variations over the variation list
BestFrom(norm_input, variations, best) ==
    IF variations = <<>> THEN best
    ELSE LET norm_variation == Normalize(Head(variations))
             s == score_pair_with_soundex(norm_input, norm_variation)
         IN  BestFrom(norm_input, Tail(variations), IF RLess(best, s) THEN s ELSE best)

best_score_against_variations(norm_input, norm_base, variations) ==
    BestFrom(norm_input, variations, score_pair_with_soundex(norm_input, norm_base))

\* a variant of calculate_full_score whose 5% mother term compares the
\* mother's last names
calculate_full_score_with_mother_last(input_norm_names, target_norm_names, dob1, dob2, place1_norm, place2_norm) ==
    LET s1 == RMul(combo(input_norm_names.first_name, target_norm_names.first_name),
                   <<35, 100>>)
        s2 == RMul(combo(input_norm_names.last_name, target_norm_names.last_name),
                   <<30, 100>>)
        s3 == RMul(jaro(input_norm_names.father_name, target_norm_names.father_name),
                   <<10, 100>>)
        s4 == RMul(jaro(input_norm_names.grandfather_name,
                        target_norm_names.grandfather_name), <<5, 100>>)
        s5 == RMul(jaro(input_norm_names.mother_last_name,
                        target_norm_names.mother_last_name), <<5, 100>>)
        s6 == IF dob1 # None /\ dob2 # None /\ dob1 = dob2 THEN <<10, 100>> ELSE <<0, 1>>
        s7 == RMul(jaro(place1_norm, place2_norm), <<5, 100>>)
        score == RAdd(RAdd(RAdd(RAdd(RAdd(RAdd(s1, s2), s3), s4), s5), s6), s7)
    IN  score

\* input_norm_names and target_norm_names are records of the six names
calculate_full_score(input_norm_names, target_norm_names, dob1, dob2, place1_norm, place2_norm) ==
    LET s1 == RMul(combo(input_norm_names.first_name, target_norm_names.first_name),
                   <<35, 100>>)
        s2 == RMul(combo(input_norm_names.last_name, target_norm_names.last_name),
                   <<30, 100>>)
        s3 == RMul(jaro(input_norm_names.father_name, target_norm_names.father_name),
                   <<10, 100>>)
        s4 == RMul(jaro(input_norm_names.grandfather_name,
                        target_norm_names.grandfather_name), <<5, 100>>)
        s5 == RMul(jaro(input_norm_names.mother_name, target_norm_names.mother_name),
                   <<5, 100>>)
        s6 == IF dob1 # None /\ dob2 # None /\ dob1 = dob2 THEN <<10, 100>> ELSE <<0, 1>>
        s7 == RMul(jaro(place1_norm, place2_norm), <<5, 100>>)
        score == RAdd(RAdd(RAdd(RAdd(RAdd(RAdd(s1, s2), s3), s4), s5), s6), s7)
        total == RAdd(RAdd(RAdd(RAdd(RAdd(RAdd(<<35, 100>>, <<30, 100>>), <<10, 100>>),
                                     <<5, 100>>), <<5, 100>>), <<10, 100>>), <<5, 100>>)
    IN  RDiv(score, total)

(***************************************************************************)
(* utils/loader.rs.  A row of the table tunisian_citizens is a record of   *)
(* its columns, named as the loader's locals; a text column may be NULL.   *)
(***************************************************************************)
THAL == 1584
THEH == 1579

Null == <<-2>>

NameFields ==
    <<"first_name", "last_name", "father_name", "grandfather_name",
      "mother_last_name", "mother_name">>

\* a variant of generation_key that forgets to scale the decade back
generation_key_unscaled(year) == year \div 10

\* a variant of generation_key that rounds to the nearest decade
generation_key_nearest(year) == ((year + 5) \div 10) * 10

generation_key(year) == (year \div 10) * 10

\* the WHERE clause of the decade query
InGeneration(row, gen) == (row.year \div 10) * 10 = gen

\* try_get(..).ok()? succeeds on each column of the row
RowComplete(row) ==
    \A c \in {"first", "last", "father", "grandpa", "mom_last", "mom", "gender", "place"} :
        row[c] # Null

\* the match on the gender column
SexOfGender(gender) ==
    IF gender \in {<<DIGIT_ZERO + 1>>, <<THAL, KAF, REH>>} THEN 1
    ELSE IF gender \in {<<DIGIT_ZERO + 2>>, <<ALEF_HAMZA_ABOVE, NOON, THEH, ALEF_MAKSURA>>} THEN 2
    ELSE 0

\* the IdentityNode built from a complete row (next_identity, always None, is
\* left out); a variation list is the sequence of its strings
BuildIdentityNode(row) ==
    [first_name |-> Normalize(row.first),
     last_name |-> Normalize(row.last),
     father_name |-> Normalize(row.father),
     grandfather_name |-> Normalize(row.grandpa),
     mother_last_name |-> Normalize(row.mom_last),
     mother_name |-> Normalize(row.mom),
     dob |-> <<row.day, row.mon, row.year>>,
     sex |-> SexOfGender(row.gender),
     place_of_birth |-> row.place,
     first_name_variations |-> <<row.first>>,
     last_name_variations |-> <<row.last>>,
     father_name_variations |-> <<row.father>>,
     grandfather_name_variations |-> <<row.grandpa>>,
     mother_last_name_variations |-> <<row.mom_last>>,
     mother_name_variations |-> <<row.mom>>]

(***************************************************************************)
(* main.rs: match_identity.                                                *)
(***************************************************************************)
THRESHOLD == 75
TOP_K == 3

\* the seven norm_input_* locals
NormInput(input) ==
    [first_name |-> Normalize(input.first_name),
     last_name |-> Normalize(input.last_name),
     father_name |-> Normalize(input.father_name),
     grandfather_name |-> Normalize(input.grandfather_name),
     mother_last_name |-> Normalize(input.mother_last_name),
     mother_name |-> Normalize(input.mother_name),
     place_of_birth |-> Normalize(input.place_of_birth)]

\* step 1: the decade key of the query
QueryGeneration(input) ==
    IF input.dob # None THEN generation_key(input.dob[3]) ELSE generation_key(0)

\* the details tuple of the query that the pre-filter receives
InputDetails(input) ==
    [first_name |-> NormInput(input).first_name,
     last_name |-> NormInput(input).last_name,
     dob |-> input.dob,
     sex |-> input.sex]

\* a variant of the dob entry that compares the two dates as a whole, as
\* calculate_full_score does
DobScoreWholeDate(dob1, dob2) ==
    IF dob1 # None /\ dob2 # None /\ dob1 = dob2 THEN 100 ELSE 0

\* the dob entry of the breakdown
DobScore(dob1, dob2) ==
    IF dob1 # None /\ dob2 # None
    THEN LET third(e) == IF e THEN <<1, 3>> ELSE <<0, 1>>
         IN  RoundPercent(RAdd(RAdd(third(dob1[1] = dob2[1]), third(dob1[2] = dob2[2])),
                               third(dob1[3] = dob2[3])))
    ELSE 0

IdentityRecordOf(id_node) ==
    [first_name |-> id_node.first_name,
     last_name |-> id_node.last_name,
     father_name |-> id_node.father_name,
     grandfather_name |-> id_node.grandfather_name,
     mother_last_name |-> id_node.mother_last_name,
     mother_name |-> id_node.mother_name,
     dob |-> IF id_node.dob # None THEN id_node.dob ELSE <<0, 0, 0>>,
     sex |-> id_node.sex,
     place_of_birth |-> id_node.place_of_birth]

VariationsOf(id_node, f) ==
    CASE f = "first_name" -> id_node.first_name_variations
      [] f = "last_name" -> id_node.last_name_variations
      [] f = "father_name" -> id_node.father_name_variations
      [] f = "grandfather_name" -> id_node.grandfather_name_variations
      [] f = "mother_last_name" -> id_node.mother_last_name_variations
      [] f = "mother_name" -> id_node.mother_name_variations

\* step 4, the closure run for one candidate: its MatchResult.  The labels of
\* the breakdown are the field names here
ScoreCandidate(input, id_node) ==
    LET norm == NormInput(input)
        names == [k \in 1..6 |->
                    [field |-> NameFields[k],
                     score |-> RoundPercent(best_score_against_variations(
                                   norm[NameFields[k]], id_node[NameFields[k]],
                                   VariationsOf(id_node, NameFields[k])))]]
        dob_score == DobScore(input.dob, id_node.dob)
        place_score == RoundPercent(score_pair_with_soundex(norm.place_of_birth,
                                                            id_node.place_of_birth))
        sex_score == IF input.sex = id_node.sex THEN 100 ELSE 0
        raw_total == calculate_full_score(norm, id_node, input.dob, id_node.dob,
                                          norm.place_of_birth, id_node.place_of_birth)
    IN  [matched_identity |-> IdentityRecordOf(id_node),
         total_score |-> RoundPercent(raw_total),
         breakdown |-> names \o <<[field |-> "dob", score |-> dob_score],
                                  [field |-> "place_of_birth", score |-> place_score],
                                  [field |-> "sex", score |-> sex_score]>>]

\* a variant of the comparator that sorts by ascending total_score
InSortOrderAscending(a, b) == a.total_score <= b.total_score

\* a before b is an order the comparator of the sort accepts
InSortOrder(a, b) == b.total_score <= a.total_score

\* the results a sort by that comparator may leave: sort_unstable_by promises a
\* sorted permutation and no order among equal elements
SortOutcomes(res) ==
    {[k \in 1..Len(res) |-> res[p[k]]] :
        p \in {q \in [1..Len(res) -> 1..Len(res)] :
                 /\ \A x, y \in 1..Len(res) : x # y => q[x] # q[y]
                 /\ \A x \in 1..(Len(res) - 1) : InSortOrder(res[q[x]], res[q[x + 1]])}}

\* a variant of PassesThreshold with a strict comparison
PassesThresholdStrict(r) == r.total_score > THRESHOLD

PassesThreshold(r) == r.total_score >= THRESHOLD

\* step 5: filter by the threshold, take the first three
ThresholdAndTake(sorted) ==
    LET kept == SelectSeq(sorted, PassesThreshold)
    IN  SubSeq(kept, 1, Min2(Len(kept), TOP_K))

(***************************************************************************)
(* State.                                                                  *)
(*   fin, fout, fop   a call of one function of the core: its arguments,   *)
(*                    the values returned so far, and the calls made       *)
(*   head             the linked list the dictionary calls act on: the     *)
(*                    identity dictionary as the sequence of its           *)
(*                    IdentityNodes, or one list of variations as the      *)
(*                    sequence of its strings                              *)
(*   store            the rows of the table tunisian_citizens              *)
(*   query            the InputIdentity of the request                     *)
(*   pc               where match_identity stands: "start", "loaded",      *)
(*                    "scoring", "done" (a response was returned) or       *)
(*                    "panicked" (the task unwound, no response)           *)
(*   records          the loaded Vec<IdentityNode>                         *)
(*   candidates       the records that passed the pre-filter, as indices   *)
(*                    into records                                         *)
(*   results          the Vec<MatchResult> the parallel map collects       *)
(*   response         the (StatusCode, Json) returned; status 0 before     *)
(***************************************************************************)
VARIABLES fin, fout, fop, head, store, query, pc, records, candidates, results, response

vars == <<fin, fout, fop, head, store, query, pc, records, candidates, results, response>>

callVars == <<fin, fout, fop, head>>
requestVars == <<store, query, pc, records, candidates, results, response>>

\* no request is served
NoRequest ==
    /\ store = <<>>
    /\ query = <<>>
    /\ pc = "idle"
    /\ records = <<>>
    /\ candidates = <<>>
    /\ results = <<>>
    /\ response = [status |-> 0, body |-> <<>>]

\* no function is called on its own
NoCall == fin = <<>> /\ fout = <<>> /\ fop = <<>> /\ head = <<>>

(***************************************************************************)
(* SpecNormalizer: the Normalizer applied to a string, then to its result. *)
(***************************************************************************)
MaxNormLen == 4

\* alef, lam, beh, noon, teh, alef with hamza, fatha, a lam-alef ligature, space
NormAlphabet ==
    {ALEF, LAM, BEH, NOON, TEH, ALEF_HAMZA_ABOVE, FATHA,
     LAM_ALEF_HAMZA_ABOVE_ISOLATED, 32}

InitNormalizer ==
    /\ NoRequest
    /\ fin \in StringsUpTo(NormAlphabet, MaxNormLen)
    /\ fout = <<>>
    /\ fop = <<>>
    /\ head = <<>>

CallNormalize ==
    /\ fop = <<>>
    /\ fout' = <<Normalize(fin)>>
    /\ fop' = <<"Normalize">>
    /\ UNCHANGED <<fin, head, requestVars>>

CallNormalizeAgain ==
    /\ fop = <<"Normalize">>
    /\ fout' = Append(fout, Normalize(fout[1]))
    /\ fop' = Append(fop, "Normalize")
    /\ UNCHANGED <<fin, head, requestVars>>

NextNormalizer == CallNormalize \/ CallNormalizeAgain

SpecNormalizer == InitNormalizer /\ [][NextNormalizer]_vars

\* C1 (as stated): the Normalizer is idempotent, N(N(s)) = N(s) for every s
C1_Idempotent == Len(fout) = 2 => fout[2] = fout[1]

\* C1 (amended): remove_diacritics and normalize_arabic leave a normalized
\* string unchanged, so the second application only removes one more prefix;
\* N(N(s)) = N(s) exactly when N(s) starts with none of the prefixes
\* alef-lam, beh-noon, alef-beh-noon
C1_IdempotentUpToPrefix ==
    Len(fout) = 2 =>
        /\ remove_diacritics(fout[1]) = fout[1]
        /\ normalize_arabic(fout[1]) = fout[1]
        /\ fout[2] = standardize_prefixes(fout[1])
        /\ (fout[2] = fout[1]) <=>
              ~ \E i \in 1..3 : starts_with(fout[1], prefixes[i])

\* a twice-normalized string whose first normal form still starts with a prefix
C1_Witness ==
    /\ Len(fout) = 2
    /\ fout[1] # fin
    /\ starts_with(fout[1], <<BEH, NOON>>)
    /\ fout[2] # fout[1]

(***************************************************************************)
(* SpecSoundex: aramix_soundex applied to a name.                          *)
(***************************************************************************)
MaxNameLen == 5

\* tah, reh, beh, lam, alef, hamza and the Latin letter A
SoundexAlphabet == {TAH, REH, BEH, LAM, ALEF, HAMZA, 65}

InitSoundex ==
    /\ NoRequest
    /\ fin \in StringsUpTo(SoundexAlphabet, MaxNameLen)
    /\ fout = <<>>
    /\ fop = <<>>
    /\ head = <<>>

CallSoundex ==
    /\ fop = <<>>
    /\ fout' = <<aramix_soundex(fin)>>
    /\ fop' = <<"aramix_soundex">>
    /\ UNCHANGED <<fin, head, requestVars>>

NextSoundex == CallSoundex

SpecSoundex == InitSoundex /\ [][NextSoundex]_vars

\* C3: the code is the first 4 characters of the first letter followed by the
\* collapsed non-zero digits; with three or more digits it has exactly 4
\* characters, one letter and three digits
C3_FourCharacters ==
    fop = <<"aramix_soundex">> =>
        LET full == UntruncatedCode(normalize_arabic_letters(fin))
        IN  /\ fout[1] = TruncateChars(full, 4)
            /\ Len(full) >= 4 => Len(fout[1]) = 4

\* C17: after the first character the code holds non-zero digits only, no two
\* adjacent ones equal; a letter that follows a letter of its digit class with
\* one digit-less character in between is suppressed, as if it were not there
C17_RunLengthCollapse ==
    fop = <<"aramix_soundex">> =>
        LET code == fout[1]
            n == normalize_arabic_letters(fin)
        IN  /\ \A k \in 2..Len(code) : code[k] \in (DIGIT_ZERO + 1)..(DIGIT_ZERO + 9)
            /\ \A k \in 2..(Len(code) - 1) : code[k] # code[k + 1]
            /\ \A i \in 2..(Len(n) - 2) :
                  (/\ SoundexDigit(n[i]) # 0
                   /\ SoundexDigit(n[i + 1]) = 0
                   /\ SoundexDigit(n[i + 2]) = SoundexDigit(n[i])) =>
                      code = get_code(SubSeq(n, 1, i + 1) \o SubSeq(n, i + 3, Len(n)))

\* reh, alef, lam, beh after the first letter: the lam is suppressed
C17_Witness ==
    /\ fop = <<"aramix_soundex">>
    /\ fin = <<65, REH, ALEF, LAM, BEH>>
    /\ fout[1] = <<65, DIGIT_ZERO + 4, DIGIT_ZERO + 1>>

(***************************************************************************)
(* SpecFilter: should_consider_candidate applied to a query and a          *)
(* candidate.                                                              *)
(***************************************************************************)
Trabelsi == <<TAH, REH, ALEF, BEH, LAM, SEEN, YEH>>
Tarbelsi == <<TEH, REH, BEH, LAM, SEEN, YEH>>
Trbelsi == <<TAH, REH, BEH, LAM, SEEN, YEH>>
AlHammami == <<ALEF, LAM, HAH, MEEM, ALEF, MEEM, YEH>>
Hammami == <<HAH, MEEM, ALEF, MEEM, YEH>>
Ahmed == <<ALEF, HAH, MEEM, DAL>>
Ali == <<AIN, LAM, YEH>>

FilterLastNames == {Trabelsi, Tarbelsi, Trbelsi, AlHammami, Hammami}
FilterYears == {1974, 1975, 1985, 1995, 1996}

FilterDetails ==
    [first_name : {Ahmed, Ali}, last_name : FilterLastNames,
     dob : {None} \cup {<<15, 6, y>> : y \in FilterYears}, sex : 0..2]

InitFilter ==
    /\ NoRequest
    /\ fin \in FilterDetails \X FilterDetails
    /\ fout = <<>>
    /\ fop = <<>>
    /\ head = <<>>

CallFilter ==
    /\ fop = <<>>
    /\ fout' = <<should_consider_candidate(fin[1], fin[2])>>
    /\ fop' = <<"should_consider_candidate">>
    /\ UNCHANGED <<fin, head, requestVars>>

NextFilter == CallFilter

SpecFilter == InitFilter /\ [][NextFilter]_vars

Filtered == fop = <<"should_consider_candidate">>

SameSexCompatibleYears ==
    /\ fin[1].sex = fin[2].sex
    /\ \/ fin[1].dob = None
       \/ fin[2].dob = None
       \/ Abs(fin[1].dob[3] - fin[2].dob[3]) <= 10

\* C2 (as stated): with the same sex and compatible years, the candidate whose
\* last name is the teh-spelling of the query's tah-spelled last name has the
\* same Soundex code and is kept; the unrelated last name is dropped
C2_PhoneticGateKeeps ==
    (Filtered /\ SameSexCompatibleYears /\ fin[1].last_name = Trabelsi) =>
        /\ fin[2].last_name = Tarbelsi =>
              /\ aramix_soundex(Trabelsi) = aramix_soundex(Tarbelsi)
              /\ fout[1] = TRUE
        /\ fin[2].last_name = AlHammami => fout[1] = FALSE

\* C2 (amended): the two codes agree in their digits but differ in their
\* first character, which is copied verbatim (tah against teh), so the
\* candidate is dropped; the unrelated last name is dropped as well
C2_PhoneticGateDrops ==
    (Filtered /\ SameSexCompatibleYears /\ fin[1].last_name = Trabelsi) =>
        /\ fin[2].last_name = Tarbelsi =>
              /\ Tail(aramix_soundex(Trabelsi)) = Tail(aramix_soundex(Tarbelsi))
              /\ Head(aramix_soundex(Trabelsi)) = TAH
              /\ Head(aramix_soundex(Tarbelsi)) = TEH
              /\ fout[1] = FALSE
        /\ fin[2].last_name \in {AlHammami, Hammami} => fout[1] = FALSE

\* the scenario's query and candidate, of the same sex and ten years apart
C2_Witness ==
    /\ Filtered
    /\ fin[1].last_name = Trabelsi
    /\ fin[2].last_name = Tarbelsi
    /\ fin[1].sex = 1 /\ fin[2].sex = 1
    /\ fin[1].dob = <<15, 6, 1985>> /\ fin[2].dob = <<15, 6, 1975>>
    /\ fout[1] = FALSE

\* C9: the candidate is kept iff the sex codes are equal, the years are at most
\* 10 apart when both dobs are present, and the Soundex codes of the last names
\* are equal; nothing else is read
C9_ThreeGates ==
    Filtered =>
        fout[1] = ( /\ fin[1].sex = fin[2].sex
                    /\ \/ fin[1].dob = None
                       \/ fin[2].dob = None
                       \/ (fin[1].dob[3] - fin[2].dob[3]) \in -10..10
                    /\ aramix_soundex(fin[1].last_name)
                          = aramix_soundex(fin[2].last_name) )

\* kept: sex 0 against 0, years exactly 10 apart, last names that differ as
\* strings but not in their code, different first names
C9_Witness ==
    /\ Filtered
    /\ fin[1].sex = 0 /\ fin[2].sex = 0
    /\ fin[1].dob = <<15, 6, 1985>> /\ fin[2].dob = <<15, 6, 1995>>
    /\ fin[1].last_name = Trabelsi /\ fin[2].last_name = Trbelsi
    /\ fin[1].first_name # fin[2].first_name
    /\ fout[1] = TRUE

(***************************************************************************)
(* Spec: one request to the match endpoint, against a table of at most     *)
(* MaxRows rows.                                                           *)
(***************************************************************************)
MaxRows == 4

AhmedRaw == <<ALEF_HAMZA_ABOVE, HAH, MEEM, DAL>>
BenAli == <<BEH, NOON, 32, AIN, LAM, YEH>>
Mohamed == <<MEEM, HAH, MEEM, DAL>>
Salah == <<SAD, ALEF, LAM, HAH>>
Omar == <<AIN, MEEM, REH>>
Fatma == <<FEH, ALEF, TAH, MEEM, TEH_MARBUTA>>
Zeineb == <<ZAIN, YEH, NOON, BEH>>
Tunis == <<TEH, WAW, NOON, SEEN>>
AlKef == <<ALEF, LAM, KAF, ALEF, FEH>>
Beja == <<BEH, ALEF, JEEM, TEH_MARBUTA>>

\* the record of the exact-match scenario
RowExact ==
    [first |-> AhmedRaw, last |-> BenAli, father |-> Mohamed, grandpa |-> Salah,
     mom_last |-> Trabelsi, mom |-> Fatma, day |-> 15, mon |-> 6, year |-> 1985,
     gender |-> <<DIGIT_ZERO + 1>>, place |-> Tunis]

\* the same person under another mother's last name
RowOtherMotherLast == [RowExact EXCEPT !.mom_last = AlHammami, !.gender = <<THAL, KAF, REH>>]

\* born in El Kef, a place whose name starts with a prefix
RowKef == [RowExact EXCEPT !.place = AlKef]

\* first, last and father's name as in the scenario, nothing else
RowPartial ==
    [RowExact EXCEPT !.grandpa = Omar, !.mom = Zeineb, !.day = 16, !.place = Beja]

\* first and last name as in the scenario, nothing else
RowWeak == [RowPartial EXCEPT !.father = Omar]

\* a woman of the next decade
RowNineties ==
    [RowExact EXCEPT !.year = 1995,
                     !.gender = <<ALEF_HAMZA_ABOVE, NOON, THEH, ALEF_MAKSURA>>]

\* a row without a place of birth
RowNoPlace == [RowExact EXCEPT !.place = Null]

RowPool ==
    {RowExact, RowOtherMotherLast, RowKef, RowPartial, RowWeak, RowNineties, RowNoPlace}

\* the query whose fields are the raw stored values of a complete row
QueryOfRow(row) ==
    [first_name |-> row.first, last_name |-> row.last, father_name |-> row.father,
     grandfather_name |-> row.grandpa, mother_last_name |-> row.mom_last,
     mother_name |-> row.mom, dob |-> <<row.day, row.mon, row.year>>,
     sex |-> SexOfGender(row.gender), place_of_birth |-> row.place]

QueryPool ==
    {QueryOfRow(RowExact), QueryOfRow(RowKef),
     [QueryOfRow(RowExact) EXCEPT !.dob = <<15, 6, 1995>>]}

Pending == [matched_identity |-> <<>>, total_score |-> -1, breakdown |-> <<>>]

(***************************************************************************)
(* The pure functions of the request, tabulated once over the pools: the   *)
(* actions look a value up instead of computing it again in every state.   *)
(***************************************************************************)
\* rows at the two ends of the decades 0, 1980 and 1990 and next to them, and
\* two rows of 1999 of the other gender and of another last name
DecadeRows ==
    {[RowExact EXCEPT !.year = y] : y \in {0, 9, 10, 1979, 1980, 1989, 1990, 1999}}
        \cup {[RowExact EXCEPT !.year = 1999, !.gender = <<DIGIT_ZERO + 2>>],
              [RowExact EXCEPT !.year = 1999, !.last = Trabelsi]}

\* the scenario's query without a dob and with a dob of three other decades
DecadeQueries ==
    {[QueryOfRow(RowExact) EXCEPT !.dob = d] :
        d \in {None, <<15, 6, 5>>, <<15, 6, 1985>>, <<15, 6, 1990>>}}

NodeTable ==
    {<<row, BuildIdentityNode(row)>> : row \in {r \in RowPool \cup DecadeRows : RowComplete(r)}}

NodePool == {e[2] : e \in NodeTable}

FilterTable ==
    {<<q, n, should_consider_candidate(InputDetails(q), n)>> : q \in QueryPool \cup DecadeQueries, n \in NodePool}

ScoreTable == {<<q, n, ScoreCandidate(q, n)>> : q \in QueryPool \cup DecadeQueries, n \in NodePool}

NodeOfRow(row) == (CHOOSE e \in NodeTable : e[1] = row)[2]

Considered(q, n) == (CHOOSE e \in FilterTable : e[1] = q /\ e[2] = n)[3]

ScoreOf(q, n) == (CHOOSE e \in ScoreTable : e[1] = q /\ e[2] = n)[3]

RECURSIVE load_identities_by_generation(_, _)
\* the decade query and the filter_map over its rows, when the store answers
load_identities_by_generation(table, gen) ==
    IF table = <<>> THEN <<>>
    ELSE (IF InGeneration(Head(table), gen) /\ RowComplete(Head(table))
          THEN <<NodeOfRow(Head(table))>> ELSE <<>>)
         \o load_identities_by_generation(Tail(table), gen)

RECURSIVE PreFilterFrom(_, _, _)
\* step 3: the indices of the records that pass the pre-filter, in order
PreFilterFrom(input, recs, i) ==
    IF i > Len(recs) THEN <<>>
    ELSE (IF Considered(input, recs[i]) THEN <<i>> ELSE <<>>)
         \o PreFilterFrom(input, recs, i + 1)

Init ==
    /\ NoCall
    /\ store \in UNION {[1..k -> RowPool] : k \in 0..MaxRows}
    /\ query \in QueryPool
    /\ pc = "start"
    /\ records = <<>>
    /\ candidates = <<>>
    /\ results = <<>>
    /\ response = [status |-> 0, body |-> <<>>]

\* steps 1 and 2 when the store answers: the decade is loaded; an empty load
\* is answered 404
Load ==
    /\ pc = "start"
    /\ records' = load_identities_by_generation(store, QueryGeneration(query))
    /\ IF records' = <<>>
       THEN /\ response' = [status |-> 404, body |-> <<>>]
            /\ pc' = "done"
       ELSE /\ pc' = "loaded"
            /\ UNCHANGED response
    /\ UNCHANGED <<callVars, store, query, candidates, results>>

\* step 2 when the store fails: each of the three expect() calls of the loader
\* panics on its Err, and the panic unwinds match_identity
LoadPanics ==
    /\ pc = "start"
    /\ pc' = "panicked"
    /\ UNCHANGED <<callVars, store, query, records, candidates, results, response>>

\* step 3: the pre-filter; no candidate is answered 200 with an empty array
PreFilter ==
    /\ pc = "loaded"
    /\ candidates' = PreFilterFrom(query, records, 1)
    /\ IF candidates' = <<>>
       THEN /\ response' = [status |-> 200, body |-> <<>>]
            /\ pc' = "done"
            /\ UNCHANGED results
       ELSE /\ results' = [k \in 1..Len(candidates') |-> Pending]
            /\ pc' = "scoring"
            /\ UNCHANGED response
    /\ UNCHANGED <<callVars, store, query, records>>

\* a variant of step 4 in which collect() fills the vector from its end: the
\* MatchResult of candidate k lands at the mirrored position
ScoreOneMirrored(k) ==
    /\ pc = "scoring"
    /\ results[Len(results) + 1 - k] = Pending
    /\ results' = [results EXCEPT
                      ![Len(results) + 1 - k] = ScoreOf(query, records[candidates[k]])]
    /\ UNCHANGED <<callVars, store, query, pc, records, candidates, response>>

\* step 4: a worker of the parallel map scores candidate k; collect() puts its
\* MatchResult at position k
ScoreOne(k) ==
    /\ pc = "scoring"
    /\ results[k] = Pending
    /\ results' = [results EXCEPT ![k] = ScoreOf(query, records[candidates[k]])]
    /\ UNCHANGED <<callVars, store, query, pc, records, candidates, response>>

\* the sort in place, then step 5: threshold, top three, 200
Respond ==
    /\ pc = "scoring"
    /\ \A k \in 1..Len(results) : results[k] # Pending
    /\ \E sorted \in SortOutcomes(results) :
          /\ results' = sorted
          /\ response' = [status |-> 200, body |-> ThresholdAndTake(sorted)]
    /\ pc' = "done"
    /\ UNCHANGED <<callVars, store, query, records, candidates>>

Next ==
    \/ Load
    \/ LoadPanics
    \/ PreFilter
    \/ \E k \in 1..Len(results) : ScoreOne(k)
    \/ Respond

Spec == Init /\ [][Next]_vars

(***************************************************************************)
(* Properties of a request.                                                *)
(***************************************************************************)
Answered == pc = "done"

\* what the parallel map collects: the score of each candidate, in order
ScoredCandidates == [k \in 1..Len(candidates) |-> ScoreOf(query, records[candidates[k]])]

RECURSIVE InsertStable(_, _)
\* r put into a descending sequence behind every element that is not smaller
InsertStable(sorted, r) ==
    IF sorted = <<>> THEN <<r>>
    ELSE IF InSortOrder(Head(sorted), r) THEN <<Head(sorted)>> \o InsertStable(Tail(sorted), r)
    ELSE <<r>> \o sorted

RECURSIVE StableSortFrom(_, _, _)
StableSortFrom(res, i, sorted) ==
    IF i > Len(res) THEN sorted ELSE StableSortFrom(res, i + 1, InsertStable(sorted, res[i]))

\* slice::sort_by, the stable sort (the one the command-line driver uses)
StableSort(res) == StableSortFrom(res, 1, <<>>)

\* the decade of the query's year, 0 without a dob
QueryDecade == IF query.dob = None THEN 0 ELSE query.dob[3] - (query.dob[3] % 10)

\* the rows of the table in the query's generation bucket, by position
BucketRows == {i \in 1..Len(store) : store[i].year - (store[i].year % 10) = QueryDecade}

\* C4: a query equal to the raw stored values of a reference record is answered
\* with that record, total_score 100 and all nine breakdown entries 100
C4_ExactMatch ==
    Answered =>
        \A i \in 1..Len(store) :
            (RowComplete(store[i]) /\ query = QueryOfRow(store[i])) =>
                \E k \in 1..Len(response.body) :
                    /\ response.body[k].matched_identity
                          = IdentityRecordOf(NodeOfRow(store[i]))
                    /\ response.body[k].total_score = 100
                    /\ \A e \in 1..9 : response.body[k].breakdown[e].score = 100

\* C5: the response is sorted by descending total_score, holds only entries of
\* total_score >= 75, at most 3 of them, and 75 itself passes the threshold
C5_SortedThresholdTopK ==
    (Answered /\ response.status = 200) =>
        /\ \A k \in 1..(Len(response.body) - 1) :
              response.body[k].total_score >= response.body[k + 1].total_score
        /\ \A k \in 1..Len(response.body) : response.body[k].total_score >= 75
        /\ Len(response.body) <= 3
        /\ \A k \in 1..Len(candidates) :
              ScoredCandidates[k].total_score = 75 =>
                  \/ Len(response.body) = 3
                  \/ \E e \in 1..Len(response.body) : response.body[e] = ScoredCandidates[k]

\* four candidates at or over the threshold: three are returned, the last one
\* with exactly 75
C5_Witness ==
    /\ Answered
    /\ response.status = 200
    /\ Len(candidates) = 4
    /\ \A k \in 1..4 : ScoredCandidates[k].total_score >= 75
    /\ Len(response.body) = 3
    /\ response.body[1].total_score = 100
    /\ response.body[3].total_score = 75

\* C6: results of equal total_score keep the order in which their records
\* survived the filter, in the response and in the cut to the top three: the
\* response is the one a stable sort gives
C6_TiesInSourceOrder ==
    (Answered /\ response.status = 200 /\ candidates # <<>>) =>
        response.body = ThresholdAndTake(StableSort(ScoredCandidates))

\* C7 (as stated): 404 with an empty body exactly when the table holds no row in
\* the query's generation bucket; otherwise 200, with an empty array when no
\* record passed the filter or none reached the threshold
C7_NotFoundIffEmptyBucket ==
    Answered =>
        /\ response.status = 404 <=> BucketRows = {}
        /\ response.status = 404 => response.body = <<>>
        /\ response.status # 404 => response.status = 200
        /\ ( /\ response.status = 200
             /\ \/ candidates = <<>>
                \/ \A k \in 1..Len(candidates) : ScoredCandidates[k].total_score < 75 )
           => response.body = <<>>

\* C7 (amended): 404 with an empty body exactly when the loader returns no
\* record, that is when the bucket holds no row or every row of it lacks a
\* required column; otherwise 200, with an empty array when no record passed
\* the filter or none reached the threshold
C7_NotFoundIffNothingLoaded ==
    Answered =>
        /\ response.status = 404 <=> ~ \E i \in BucketRows : RowComplete(store[i])
        /\ response.status = 404 => response.body = <<>>
        /\ response.status # 404 => response.status = 200
        /\ ( /\ response.status = 200
             /\ \/ candidates = <<>>
                \/ \A k \in 1..Len(candidates) : ScoredCandidates[k].total_score < 75 )
           => response.body = <<>>

\* 404 although the bucket holds a row
C7_Witness ==
    /\ Answered
    /\ response.status = 404
    /\ BucketRows # {}

\* C8: a failure of the store is answered with a 5xx response
C8_StoreErrorIs5xx == pc = "panicked" => response.status \in 500..599

RECURSIVE CompleteBucketRows(_)
\* the complete rows of the bucket from position i of the table on, in order
CompleteBucketRows(i) ==
    IF i > Len(store) THEN <<>>
    ELSE (IF i \in BucketRows /\ RowComplete(store[i]) THEN <<store[i]>> ELSE <<>>)
         \o CompleteBucketRows(i + 1)

\* C10: each loaded record holds the six name fields and the place of birth
\* normalized, and each variation list holds exactly the raw original
C10_LoaderNormalizesAll ==
    pc \in {"loaded", "scoring", "done"} =>
        LET rows == CompleteBucketRows(1)
        IN  /\ Len(records) = Len(rows)
            /\ \A i \in 1..Len(rows) :
                  /\ records[i].first_name = Normalize(rows[i].first)
                  /\ records[i].last_name = Normalize(rows[i].last)
                  /\ records[i].father_name = Normalize(rows[i].father)
                  /\ records[i].grandfather_name = Normalize(rows[i].grandpa)
                  /\ records[i].mother_last_name = Normalize(rows[i].mom_last)
                  /\ records[i].mother_name = Normalize(rows[i].mom)
                  /\ records[i].place_of_birth = Normalize(rows[i].place)
                  /\ records[i].first_name_variations = <<rows[i].first>>
                  /\ records[i].last_name_variations = <<rows[i].last>>
                  /\ records[i].father_name_variations = <<rows[i].father>>
                  /\ records[i].grandfather_name_variations = <<rows[i].grandpa>>
                  /\ records[i].mother_last_name_variations = <<rows[i].mom_last>>
                  /\ records[i].mother_name_variations = <<rows[i].mom>>


(***************************************************************************)
(* SpecLigatures: the Normalizer applied to strings over lam, alef and the *)
(* eight Lam-Alef presentation forms U+FEF5..U+FEFC.                       *)
(***************************************************************************)
MaxLigatureLen == 3

\* the final form of each ligature is the code point after its isolated form
LAM_ALEF_MADDA_FINAL == LAM_ALEF_MADDA_ISOLATED + 1
LAM_ALEF_HAMZA_ABOVE_FINAL == LAM_ALEF_HAMZA_ABOVE_ISOLATED + 1
LAM_ALEF_HAMZA_BELOW_FINAL == LAM_ALEF_HAMZA_BELOW_ISOLATED + 1
LAM_ALEF_FINAL == LAM_ALEF_ISOLATED + 1

LamAlefLigatures == LAM_ALEF_MADDA_ISOLATED..LAM_ALEF_FINAL

InitLigatures ==
    /\ NoRequest
    /\ fin \in StringsUpTo(LamAlefLigatures \cup {LAM, ALEF}, MaxLigatureLen)
    /\ fout = <<>>
    /\ fop = <<>>
    /\ head = <<>>

NextLigatures == CallNormalize

SpecLigatures == InitLigatures /\ [][NextLigatures]_vars

RECURSIVE ExpandLigatures(_)
\* every Lam-Alef ligature of s replaced by lam + alef
ExpandLigatures(s) ==
    IF s = <<>> THEN <<>>
    ELSE (IF Head(s) \in LamAlefLigatures THEN <<LAM, ALEF>> ELSE <<Head(s)>>)
         \o ExpandLigatures(Tail(s))

\* C11: letter unification expands each of the eight Lam-Alef ligatures to
\* lam + alef, and no code point of U+FEF5..U+FEFC is left in the normalized
\* string
C11_AllLigaturesExpanded ==
    fop = <<"Normalize">> =>
        /\ normalize_arabic(fin) = ExpandLigatures(fin)
        /\ \A i \in 1..Len(fout[1]) : fout[1][i] \notin LamAlefLigatures


(***************************************************************************)
(* SpecScorePair: score_pair_with_soundex applied to two strings.          *)
(***************************************************************************)
MaxPairLen == 3

\* beh and feh (one digit class), alef (no digit) and the Latin letter A (one
\* byte)
PairAlphabet == {BEH, FEH, ALEF, 65}

InitScorePair ==
    /\ NoRequest
    /\ fin \in StringsUpTo(PairAlphabet, MaxPairLen) \X StringsUpTo(PairAlphabet, MaxPairLen)
    /\ fout = <<>>
    /\ fop = <<>>
    /\ head = <<>>

CallScorePair ==
    /\ fop = <<>>
    /\ fout' = <<score_pair_with_soundex(fin[1], fin[2])>>
    /\ fop' = <<"score_pair_with_soundex">>
    /\ UNCHANGED <<fin, head, requestVars>>

NextScorePair == CallScorePair

SpecScorePair == InitScorePair /\ [][NextScorePair]_vars

PairScored == fop = <<"score_pair_with_soundex">>

\* C12: for an empty first string and a non-empty second string of another
\* Soundex code, the normalized edit similarity is 0 and the pair score is 0
C12_EmptyFirstScoresZero ==
    (/\ PairScored
     /\ fin[1] = <<>>
     /\ fin[2] # <<>>
     /\ aramix_soundex(fin[1]) # aramix_soundex(fin[2])) =>
        fout[1] = <<0, 1>>

\* C13: the pair score lies in [0, 1], and a string scores 1 against itself
C13_ScoreRange ==
    PairScored =>
        /\ ~ RLess(fout[1], <<0, 1>>)
        /\ ~ RLess(<<1, 1>>, fout[1])
        /\ fin[1] = fin[2] => fout[1] = <<1, 1>>

\* a short string against a longer one with no common character (the edit
\* distance exceeds the byte length of the first string)
C13_Witness ==
    /\ PairScored
    /\ fin[1] = <<65>>
    /\ fin[2] = <<BEH, FEH, ALEF>>
    /\ fout[1] = <<0, 1>>


(***************************************************************************)
(* SpecMotherLast: the pre-filter and the scoring closure of match_identity *)
(* applied to a query and a record, then again with another mother's last  *)
(* name in the query, and again with another one in the record.            *)
(***************************************************************************)
MotherLastNames == {Trabelsi, AlHammami, Ali, <<>>}

\* what match_identity computes for one loaded record: the verdict of the
\* pre-filter and the MatchResult of the scoring closure
Scored(input, id_node) ==
    [considered |-> should_consider_candidate(InputDetails(input), id_node),
     result |-> ScoreCandidate(input, id_node)]

InitMotherLast ==
    /\ NoRequest
    /\ fin \in QueryPool \X {r \in RowPool : RowComplete(r)} \X MotherLastNames
    /\ fout = <<>>
    /\ fop = <<>>
    /\ head = <<>>

CallScoreMotherLast ==
    /\ fop = <<>>
    /\ fout' = <<Scored(fin[1], BuildIdentityNode(fin[2])),
                 Scored([fin[1] EXCEPT !.mother_last_name = fin[3]],
                        BuildIdentityNode(fin[2])),
                 Scored(fin[1], BuildIdentityNode([fin[2] EXCEPT !.mom_last = fin[3]]))>>
    /\ fop' = <<"match_identity">>
    /\ UNCHANGED <<fin, head, requestVars>>

NextMotherLast == CallScoreMotherLast

SpecMotherLast == InitMotherLast /\ [][NextMotherLast]_vars

\* C14: another mother's last name, in the query or in the record (base and
\* variation), changes at most the fifth breakdown entry: the verdict of the
\* pre-filter, total_score and the other eight entries stay as they were
C14_MotherLastUnweighted ==
    fop = <<"match_identity">> =>
        \A i \in 2..3 :
            /\ fout[i].considered = fout[1].considered
            /\ fout[i].result.total_score = fout[1].result.total_score
            /\ \A k \in (1..9) \ {5} :
                  fout[i].result.breakdown[k] = fout[1].result.breakdown[k]
            /\ fout[i].result.breakdown[5].field = "mother_last_name"

\* the fifth entry did change, both ways, for a candidate over the threshold
C14_Witness ==
    /\ fop = <<"match_identity">>
    /\ fout[1].considered
    /\ fout[1].result.total_score >= THRESHOLD
    /\ fout[1].result.breakdown[5].score = 100
    /\ fout[2].result.breakdown[5].score < 100
    /\ fout[3].result.breakdown[5].score < 100


(***************************************************************************)
(* utils/linked_list.rs.  A linked list is the sequence of its nodes; a    *)
(* list of VariationNodes is the sequence of their strings.                *)
(***************************************************************************)
RECURSIVE StrLess(_, _)
\* a < b on str: the lexicographic order of the UTF-8 bytes, which is the
\* lexicographic order of the scalar values
StrLess(a, b) ==
    IF b = <<>> THEN FALSE
    ELSE IF a = <<>> THEN TRUE
    ELSE IF Head(a) # Head(b) THEN Head(a) < Head(b)
    ELSE StrLess(Tail(a), Tail(b))

\* a variant of insert_variation that puts a new string in front of the list
insert_variation_in_front(list, variation) ==
    IF \E k \in 1..Len(list) : list[k] = variation THEN list
    ELSE <<variation>> \o list

RECURSIVE insert_variation(_, _)
\* the loop of insert_variation from the node the cursor stands on
insert_variation(list, variation) ==
    IF list = <<>> THEN <<variation>>
    ELSE IF Head(list) = variation THEN list
    ELSE IF StrLess(variation, Head(list)) THEN <<variation>> \o list
    ELSE <<Head(list)>> \o insert_variation(Tail(list), variation)

\* format!("{}{}{}{}{}{}", ..) of the six names
IdentityKey(r) ==
    r.first_name \o r.last_name \o r.father_name \o r.grandfather_name
        \o r.mother_last_name \o r.mother_name

\* the node insert_identity allocates for a record
NewIdentityNode(r) ==
    [first_name |-> r.first_name,
     last_name |-> r.last_name,
     father_name |-> r.father_name,
     grandfather_name |-> r.grandfather_name,
     mother_last_name |-> r.mother_last_name,
     mother_name |-> r.mother_name,
     dob |-> r.dob,
     sex |-> r.sex,
     place_of_birth |-> r.place_of_birth,
     first_name_variations |-> <<r.first_name_var>>,
     last_name_variations |-> <<r.last_name_var>>,
     father_name_variations |-> <<r.father_name_var>>,
     grandfather_name_variations |-> <<r.grandfather_name_var>>,
     mother_last_name_variations |-> <<r.mother_last_name_var>>,
     mother_name_variations |-> <<r.mother_name_var>>]

\* the six insert_variation calls on a node of the same key
MergeVariations(node, r) ==
    [node EXCEPT
        !.first_name_variations = insert_variation(@, r.first_name_var),
        !.last_name_variations = insert_variation(@, r.last_name_var),
        !.father_name_variations = insert_variation(@, r.father_name_var),
        !.grandfather_name_variations = insert_variation(@, r.grandfather_name_var),
        !.mother_last_name_variations = insert_variation(@, r.mother_last_name_var),
        !.mother_name_variations = insert_variation(@, r.mother_name_var)]

RECURSIVE insert_identity_updating(_, _)
\* a variant of insert_identity that, on a node of the same key, also takes
\* the dob, sex and place of birth of the record
insert_identity_updating(list, r) ==
    IF list = <<>> THEN <<NewIdentityNode(r)>>
    ELSE IF IdentityKey(Head(list)) = IdentityKey(r)
         THEN <<[MergeVariations(Head(list), r) EXCEPT
                    !.dob = r.dob, !.sex = r.sex, !.place_of_birth = r.place_of_birth]>>
              \o Tail(list)
    ELSE IF StrLess(IdentityKey(r), IdentityKey(Head(list)))
         THEN <<NewIdentityNode(r)>> \o list
    ELSE <<Head(list)>> \o insert_identity_updating(Tail(list), r)

RECURSIVE insert_identity(_, _)
\* the loop of insert_identity from the node the cursor stands on
insert_identity(list, r) ==
    IF list = <<>> THEN <<NewIdentityNode(r)>>
    ELSE IF IdentityKey(Head(list)) = IdentityKey(r)
         THEN <<MergeVariations(Head(list), r)>> \o Tail(list)
    ELSE IF StrLess(IdentityKey(r), IdentityKey(Head(list)))
         THEN <<NewIdentityNode(r)>> \o list
    ELSE <<Head(list)>> \o insert_identity(Tail(list), r)

\* the name of the field that holds the variations of name field f
VariationsField(f) ==
    CASE f = "first_name" -> "first_name_variations"
      [] f = "last_name" -> "last_name_variations"
      [] f = "father_name" -> "father_name_variations"
      [] f = "grandfather_name" -> "grandfather_name_variations"
      [] f = "mother_last_name" -> "mother_last_name_variations"
      [] f = "mother_name" -> "mother_name_variations"

(***************************************************************************)
(* SpecDictionary: calls of insert_identity and insert_variation on a      *)
(* dictionary that starts empty.                                           *)
(***************************************************************************)
MaxInserts == 3

AhmedBelow == <<ALEF_HAMZA_BELOW, HAH, MEEM, DAL>>

\* the spellings offered as variations: three of one name, one of another
VariationPool == {Ahmed, AhmedRaw, AhmedBelow, Ali}

\* first and last names of the bulk records: two persons, and a third whose
\* first name ends two letters earlier than the first one's and whose last name
\* starts with these two letters
DictNames ==
    {<<Ahmed, Trabelsi>>, <<Ali, Trabelsi>>, <<<<ALEF, HAH>>, <<MEEM, DAL>> \o Trabelsi>>}

\* the bulk records: the key varies in its first and last name, the variations
\* in the spelling of the first name, the dob in its day
DictRecords ==
    {[first_name |-> n[1], last_name |-> n[2], father_name |-> Mohamed,
      grandfather_name |-> Salah, mother_last_name |-> Hammami, mother_name |-> Fatma,
      dob |-> <<d, 6, 1985>>, sex |-> 1, place_of_birth |-> Tunis,
      first_name_var |-> v, last_name_var |-> n[2], father_name_var |-> Mohamed,
      grandfather_name_var |-> Salah, mother_last_name_var |-> Hammami,
      mother_name_var |-> Fatma] : n \in DictNames, v \in VariationPool, d \in {15, 16}}

InitDictionary ==
    /\ NoRequest
    /\ fin = <<>>
    /\ fout = <<>>
    /\ fop = <<>>
    /\ head = <<>>

InsertIdentity ==
    /\ Len(fop) < MaxInserts
    /\ \E r \in DictRecords :
          /\ head' = insert_identity(head, r)
          /\ fin' = <<r>>
    /\ fop' = Append(fop, "insert_identity")
    /\ UNCHANGED <<fout, requestVars>>

InsertVariation ==
    /\ Len(fop) < MaxInserts
    /\ \E i \in 1..Len(head), f \in {"first_name", "last_name"}, v \in VariationPool :
          /\ head' = [head EXCEPT ![i][VariationsField(f)] = insert_variation(@, v)]
          /\ fin' = <<i, f, v>>
    /\ fop' = Append(fop, "insert_variation")
    /\ UNCHANGED <<fout, requestVars>>

NextDictionary == InsertIdentity \/ InsertVariation

SpecDictionary == InitDictionary /\ [][NextDictionary]_vars

\* C15: no variation list of the dictionary holds two entries that are equal
\* after normalization
C15_NoDuplicateAfterNormalization ==
    \A i \in 1..Len(head) : \A f \in {NameFields[k] : k \in 1..6} :
        LET vs == VariationsOf(head[i], f)
        IN  \A x, y \in 1..Len(vs) : x # y => Normalize(vs[x]) # Normalize(vs[y])


(***************************************************************************)
(* SpecPrefixes: standardize_prefixes applied to a string.                 *)
(***************************************************************************)
MaxPrefixedLen == 4

\* the letters of the six prefixes and the space
PrefixAlphabet == {ALEF, LAM, BEH, NOON, TEH, ALEF_HAMZA_ABOVE, WAW, MEEM, 32}

InitPrefixes ==
    /\ NoRequest
    /\ fin \in StringsUpTo(PrefixAlphabet, MaxPrefixedLen)
    /\ fout = <<>>
    /\ fop = <<>>
    /\ head = <<>>

CallStandardizePrefixes ==
    /\ fop = <<>>
    /\ fout' = <<standardize_prefixes(fin)>>
    /\ fop' = <<"standardize_prefixes">>
    /\ UNCHANGED <<fin, head, requestVars>>

NextPrefixes == CallStandardizePrefixes

SpecPrefixes == InitPrefixes /\ [][NextPrefixes]_vars

\* C16: the output is the input without the first prefix of the list that the
\* input starts with, the remainder verbatim, or the input itself when it
\* starts with none
C16_FirstPrefixOnly ==
    fop = <<"standardize_prefixes">> =>
        \/ /\ \A i \in 1..6 : ~ starts_with(fin, prefixes[i])
           /\ fout[1] = fin
        \/ \E i \in 1..6 :
              /\ starts_with(fin, prefixes[i])
              /\ \A j \in 1..(i - 1) : ~ starts_with(fin, prefixes[j])
              /\ fin = prefixes[i] \o fout[1]

\* beh-noon-teh loses its beh-noon only, and the space after it is kept
C16_Witness ==
    /\ fop = <<"standardize_prefixes">>
    /\ fin = <<BEH, NOON, TEH, 32>>
    /\ fout[1] = <<TEH, 32>>


(***************************************************************************)
(* SpecStability: aramix_soundex applied to two spellings of one name.     *)
(***************************************************************************)
MaxSpellingLen == 3

SpellingAlphabet ==
    {TEH_MARBUTA, HEH, ALEF_MAKSURA, YEH, ALEF_HAMZA_ABOVE, ALEF_MADDA, ALEF, BEH}

\* the letter a surface variant stands for: teh marbuta for heh, alef maksura
\* for yeh, alef with hamza above or with madda for alef
SurfaceClass(c) ==
    CASE c \in {TEH_MARBUTA, HEH} -> HEH
      [] c \in {ALEF_MAKSURA, YEH} -> YEH
      [] c \in {ALEF_HAMZA_ABOVE, ALEF_MADDA, ALEF} -> ALEF
      [] OTHER -> c

\* s and t differ by substitutions of surface variants only
SameSpelling(s, t) ==
    /\ Len(s) = Len(t)
    /\ \A i \in 1..Len(s) : SurfaceClass(s[i]) = SurfaceClass(t[i])

InitStability ==
    /\ NoRequest
    /\ fin \in {p \in StringsUpTo(SpellingAlphabet, MaxSpellingLen)
                        \X StringsUpTo(SpellingAlphabet, MaxSpellingLen) :
                    SameSpelling(p[1], p[2])}
    /\ fout = <<>>
    /\ fop = <<>>
    /\ head = <<>>

CallSoundexTwice ==
    /\ fop = <<>>
    /\ fout' = <<aramix_soundex(fin[1]), aramix_soundex(fin[2])>>
    /\ fop' = <<"aramix_soundex", "aramix_soundex">>
    /\ UNCHANGED <<fin, head, requestVars>>

NextStability == CallSoundexTwice

SpecStability == InitStability /\ [][NextStability]_vars

\* C18: two strings that differ only by substitutions among teh marbuta / heh,
\* alef maksura / yeh, alef with hamza / alef and alef with madda / alef, at
\* any position, have the same Soundex code
C18_PhoneticStability ==
    fop = <<"aramix_soundex", "aramix_soundex">> => fout[1] = fout[2]

\* the two spellings differ in every position, the first included
C18_Witness ==
    /\ fop = <<"aramix_soundex", "aramix_soundex">>
    /\ fin[1] = <<ALEF_MADDA, TEH_MARBUTA, ALEF_MAKSURA>>
    /\ fin[2] = <<ALEF_HAMZA_ABOVE, HEH, YEH>>
    /\ fout[1] = <<ALEF, DIGIT_ZERO + 8>>
    /\ fout[2] = <<ALEF, DIGIT_ZERO + 8>>


(***************************************************************************)
(* SpecDiacritics: the pre-filter and the scoring closure of               *)
(* match_identity applied to a query and a record, and to the same query   *)
(* with one diacritic inserted in one of its text fields.                  *)
(***************************************************************************)
TextFields ==
    {"first_name", "last_name", "father_name", "grandfather_name",
     "mother_last_name", "mother_name", "place_of_birth"}

DiacriticQueries == {QueryOfRow(RowExact), QueryOfRow(RowKef)}

DiacriticRows == {RowOtherMotherLast, RowKef}

\* the query with character mark inserted after the first pos characters of
\* its field f
WithDiacritic(input, f, pos, mark) ==
    [input EXCEPT ![f] = SubSeq(@, 1, pos) \o <<mark>> \o SubSeq(@, pos + 1, Len(@))]

InitDiacritics ==
    /\ NoRequest
    /\ fin \in UNION {{<<q, row, f, pos, diacritics[m]>> :
                          row \in DiacriticRows, pos \in 0..Len(q[f]),
                          m \in 1..Len(diacritics)} :
                      q \in DiacriticQueries, f \in TextFields}
    /\ fout = <<>>
    /\ fop = <<>>
    /\ head = <<>>

CallScoreDiacritics ==
    /\ fop = <<>>
    /\ fout' = <<Scored(fin[1], BuildIdentityNode(fin[2])),
                 Scored(WithDiacritic(fin[1], fin[3], fin[4], fin[5]),
                        BuildIdentityNode(fin[2]))>>
    /\ fop' = <<"match_identity", "match_identity">>
    /\ UNCHANGED <<fin, head, requestVars>>

NextDiacritics == CallScoreDiacritics

SpecDiacritics == InitDiacritics /\ [][NextDiacritics]_vars

\* C19: one of the eight harakat inserted at any position of any text field of
\* the query changes nothing: the seven normalized fields, the verdict of the
\* pre-filter, total_score and every breakdown entry are the same
C19_DiacriticInvariance ==
    fop = <<"match_identity", "match_identity">> =>
        /\ NormInput(WithDiacritic(fin[1], fin[3], fin[4], fin[5])) = NormInput(fin[1])
        /\ fout[2] = fout[1]

\* a shadda inside the prefix of the place of birth, for a record that is
\* considered and scores over the threshold
C19_Witness ==
    /\ fop = <<"match_identity", "match_identity">>
    /\ fin[3] = "place_of_birth"
    /\ fin[4] = 1
    /\ fin[5] = SHADDA
    /\ fin[1].place_of_birth = AlKef
    /\ fout[2].considered
    /\ fout[2].result.total_score >= THRESHOLD


(***************************************************************************)
(* SpecDob: the dob entry of the breakdown, computed for the dob of a      *)
(* query and the dob of a record.                                          *)
(***************************************************************************)
DobPool == {None} \cup ({15, 16} \X {6, 7} \X {1985, 1986})

InitDob ==
    /\ NoRequest
    /\ fin \in DobPool \X DobPool
    /\ fout = <<>>
    /\ fop = <<>>
    /\ head = <<>>

CallDobScore ==
    /\ fop = <<>>
    /\ fout' = <<DobScore(fin[1], fin[2])>>
    /\ fop' = <<"dob_score">>
    /\ UNCHANGED <<fin, head, requestVars>>

NextDob == CallDobScore

SpecDob == InitDob /\ [][NextDob]_vars

\* C20: with both dobs present the entry is round(100 * k / 3) for the number
\* k of equal components among day, month and year, that is 0, 33, 67 or 100;
\* it is 0 when a dob is absent
C20_DobThirds ==
    fop = <<"dob_score">> =>
        IF fin[1] = None \/ fin[2] = None THEN fout[1] = 0
        ELSE LET k == Cardinality({c \in 1..3 : fin[1][c] = fin[2][c]})
             IN  /\ k = 0 => fout[1] = 0
                 /\ k = 1 => fout[1] = 33
                 /\ k = 2 => fout[1] = 67
                 /\ k = 3 => fout[1] = 100

\* the same day and year in another month
C20_Witness ==
    /\ fop = <<"dob_score">>
    /\ fin[1] = <<15, 6, 1985>>
    /\ fin[2] = <<15, 7, 1985>>
    /\ fout[1] = 67


(***************************************************************************)
(* Further properties of the pair scorer (SpecScorePair).                  *)
(***************************************************************************)
\* the pair score with the length of the first string counted in characters
ScorePairInCharacters(a, b) ==
    LET denom == Max2(Len(a), 1)
        lev_norm == Rat(denom - Min2(levenshtein(a, b), Len(a)), denom)
        bonus == IF aramix_soundex(a) = aramix_soundex(b) THEN <<1, 5>> ELSE <<0, 1>>
    IN  RMin(RAdd(RMul(RMul(RAdd(jaro(a, b), lev_norm), <<1, 2>>), <<4, 5>>), bonus),
             <<1, 1>>)

\* C21: the cap and the denominator of lev_norm count the characters of the
\* first string, the unit of the edit distance, so that lev_norm is 0 whenever
\* the distance reaches the number of characters of the first string (a
\* non-empty one here)
C21_LengthInCharacters ==
    PairScored =>
        /\ fout[1] = ScorePairInCharacters(fin[1], fin[2])
        /\ (/\ fin[1] # <<>>
            /\ levenshtein(fin[1], fin[2]) >= Len(fin[1])
            /\ jaro(fin[1], fin[2]) = <<0, 1>>
            /\ aramix_soundex(fin[1]) # aramix_soundex(fin[2])) => fout[1] = <<0, 1>>


(***************************************************************************)
(* SpecRanking: one request to the match endpoint, against a table of at   *)
(* most MaxRankedRows rows of the scenario's complete rows: four of the    *)
(* query's decade and sex, of three total scores, and one that the         *)
(* pre-filter drops.                                                       *)
(***************************************************************************)
MaxRankedRows == 4

RankedRows == {RowExact, RowKef, RowPartial, RowWeak, RowNineties}

InitRanking ==
    /\ NoCall
    /\ store \in UNION {[1..k -> RankedRows] : k \in 0..MaxRankedRows}
    /\ query \in QueryPool
    /\ pc = "start"
    /\ records = <<>>
    /\ candidates = <<>>
    /\ results = <<>>
    /\ response = [status |-> 0, body |-> <<>>]

SpecRanking == InitRanking /\ [][Next]_vars

(***************************************************************************)
(* Further properties of a request (SpecRanking).                          *)
(***************************************************************************)
\* the number of positions of sequence s that hold x
Occurrences(s, x) == Cardinality({k \in 1..Len(s) : s[k] = x})

\* C22: whatever the order in which the workers finish, position k of the
\* collected vector holds the MatchResult of survivor k or is still to be
\* filled; the loaded records stay as loaded and the survivors as filtered; the
\* response is the threshold and top three of a descending arrangement of the
\* results of the sequential map
C22_ScheduleIndependent ==
    /\ pc \in {"loaded", "scoring", "done"} =>
          records = load_identities_by_generation(store, QueryGeneration(query))
    /\ pc = "scoring" =>
          /\ candidates = PreFilterFrom(query, records, 1)
          /\ Len(results) = Len(candidates)
          /\ \A k \in 1..Len(results) : results[k] \in {Pending, ScoredCandidates[k]}
    /\ (Answered /\ candidates # <<>>) =>
          /\ Len(results) = Len(candidates)
          /\ \A k \in 1..Len(results) :
                Occurrences(results, results[k]) = Occurrences(ScoredCandidates, results[k])
          /\ \A k \in 1..(Len(results) - 1) : InSortOrder(results[k], results[k + 1])
          /\ response.body = ThresholdAndTake(results)

\* the worker of the third survivor finished before those of the first two,
\* whose results differ
C22_Witness ==
    /\ pc = "scoring"
    /\ Len(results) = 3
    /\ results[1] = Pending
    /\ results[2] = Pending
    /\ results[3] = ScoredCandidates[3]
    /\ ScoredCandidates[1] # ScoredCandidates[3]


(***************************************************************************)
(* SpecVariations: calls of insert_variation on one list that starts       *)
(* empty; fin holds the strings inserted so far.                           *)
(***************************************************************************)
MaxVariationInserts == 4

\* the empty string, a string and its one-letter prefix, two more spellings
VariationStrings == {<<>>, <<ALEF>>, Ahmed, AhmedRaw, Ali}

InitVariations ==
    /\ NoRequest
    /\ fin = <<>>
    /\ fout = <<>>
    /\ fop = <<>>
    /\ head = <<>>

CallInsertVariation ==
    /\ Len(fin) < MaxVariationInserts
    /\ \E v \in VariationStrings :
          /\ head' = insert_variation(head, v)
          /\ fin' = Append(fin, v)
    /\ fop' = Append(fop, "insert_variation")
    /\ UNCHANGED <<fout, requestVars>>

NextVariations == CallInsertVariation

SpecVariations == InitVariations /\ [][NextVariations]_vars

RECURSIVE InsertedBackwards(_)
\* the list that the same strings give when inserted last to first
InsertedBackwards(strings) ==
    IF strings = <<>> THEN <<>>
    ELSE insert_variation(InsertedBackwards(Tail(strings)), Head(strings))

\* C23: the list is strictly ascending, holds exactly the strings inserted, is
\* the list that another insertion order gives, and is left as it is by the
\* insertion of a string it holds
C23_SortedSet ==
    /\ \A k \in 1..(Len(head) - 1) : StrLess(head[k], head[k + 1])
    /\ {head[k] : k \in 1..Len(head)} = {fin[k] : k \in 1..Len(fin)}
    /\ head = InsertedBackwards(fin)
    /\ \A k \in 1..Len(fin) : insert_variation(head, fin[k]) = head

\* four insertions, one of them of a string already present, not in ascending
\* order
C23_Witness ==
    /\ fin = <<Ali, <<ALEF>>, Ali, <<>>>>
    /\ head = << <<>>, <<ALEF>>, Ali>>


(***************************************************************************)
(* main_cli.rs: the command-line driver, when the store answers.  It hands *)
(* the fields of the query to the filter and to the scorers as they were   *)
(* read.                                                                   *)
(***************************************************************************)
\* the details tuple of the query that the driver's pre-filter receives
CliInputDetails(input) ==
    [first_name |-> input.first_name,
     last_name |-> input.last_name,
     dob |-> input.dob,
     sex |-> input.sex]

\* the closure of the driver's parallel map: the MatchResult of one candidate
CliScoreCandidate(input, id) ==
    LET names == [k \in 1..6 |->
                    [field |-> NameFields[k],
                     score |-> RoundPercent(best_score_against_variations(
                                   input[NameFields[k]], id[NameFields[k]],
                                   VariationsOf(id, NameFields[k])))]]
        dob_score == DobScore(input.dob, id.dob)
        place_score == RoundPercent(score_pair_with_soundex(input.place_of_birth,
                                                            id.place_of_birth))
        sex_score == IF input.sex = id.sex THEN 100 ELSE 0
        raw_total == calculate_full_score(input, id, input.dob, id.dob,
                                          input.place_of_birth, id.place_of_birth)
    IN  [matched_identity |-> IdentityRecordOf(id),
         total_score |-> RoundPercent(raw_total),
         breakdown |-> names \o <<[field |-> "dob", score |-> dob_score],
                                  [field |-> "place_of_birth", score |-> place_score],
                                  [field |-> "sex", score |-> sex_score]>>]

\* the driver's filter verdict and MatchResult, tabulated over the pools
CliTable ==
    {<<q, n, should_consider_candidate(CliInputDetails(q), n), CliScoreCandidate(q, n)>> :
        q \in QueryPool, n \in NodePool}

CliConsidered(q, n) == (CHOOSE e \in CliTable : e[1] = q /\ e[2] = n)[3]

CliScoreOf(q, n) == (CHOOSE e \in CliTable : e[1] = q /\ e[2] = n)[4]

RECURSIVE CliScored(_, _)
\* the driver's filter and map over the loaded records, in order
CliScored(input, recs) ==
    IF recs = <<>> THEN <<>>
    ELSE (IF CliConsidered(input, Head(recs)) THEN <<CliScoreOf(input, Head(recs))>>
          ELSE <<>>)
         \o CliScored(input, Tail(recs))

\* the matches main prints: nothing when no record was loaded or none passed
\* the filter, else the first three of the stably sorted results
main_cli(input, table) ==
    LET scored == StableSort(CliScored(input,
                      load_identities_by_generation(table, QueryGeneration(input))))
    IN  SubSeq(scored, 1, Min2(Len(scored), TOP_K))

\* C24: for the same query and table the command-line driver prints the
\* matches, with the breakdowns, that the HTTP driver returns
C24_SameTopThree ==
    Answered => response.body = main_cli(query, store)


(***************************************************************************)
(* Further properties of the dictionary (SpecDictionary).                  *)
(***************************************************************************)
\* the six name fields of a and b are pairwise equal
SameNames(a, b) == \A k \in 1..6 : a[NameFields[k]] = b[NameFields[k]]

\* C25: a record is merged into a node only if the six names of the node are
\* its own, so the record just inserted has a node of its six names, and no
\* two nodes have the same six names
C25_MergeIffSameNames ==
    /\ \A i, j \in 1..Len(head) : SameNames(head[i], head[j]) => i = j
    /\ (fop # <<>> /\ fop[Len(fop)] = "insert_identity") =>
          \E i \in 1..Len(head) : SameNames(head[i], fin[1])


\* the positions of the nodes whose key is that of r
NodesOfKey(r) == {i \in 1..Len(head) : IdentityKey(head[i]) = IdentityKey(r)}

\* C26: the identity list is always strictly ascending by its key, and a call
\* of insert_identity for a key that a node has leaves the number of nodes and,
\* in every node, the six names, the dob, the sex and the place of birth as
\* they were
C26_SortedByKey ==
    /\ [](\A k \in 1..(Len(head) - 1) :
             StrLess(IdentityKey(head[k]), IdentityKey(head[k + 1])))
    /\ [][(/\ Len(fop') = Len(fop) + 1
           /\ fop'[Len(fop')] = "insert_identity"
           /\ NodesOfKey(fin'[1]) # {}) =>
             /\ Len(head') = Len(head)
             /\ \A i \in 1..Len(head) :
                   IdentityRecordOf(head'[i]) = IdentityRecordOf(head[i])]_vars

\* two nodes, the second one met again by a record of its key and another dob
C26_Witness ==
    /\ fop = <<"insert_identity", "insert_identity", "insert_identity">>
    /\ Len(head) = 2
    /\ IdentityKey(head[2]) = IdentityKey(fin[1])
    /\ head[2].dob # fin[1].dob
    /\ Len(head[2].first_name_variations) = 2


(***************************************************************************)
(* SpecDecade: one request to the match endpoint, for a query without dob  *)
(* or with a dob of one of four decades, against a table of at most        *)
(* MaxDecadeRows rows at the ends of the decades.                          *)
(***************************************************************************)
MaxDecadeRows == 2

InitDecade ==
    /\ NoCall
    /\ store \in UNION {[1..k -> DecadeRows] : k \in 0..MaxDecadeRows}
    /\ query \in DecadeQueries
    /\ pc = "start"
    /\ records = <<>>
    /\ candidates = <<>>
    /\ results = <<>>
    /\ response = [status |-> 0, body |-> <<>>]

SpecDecade == InitDecade /\ [][Next]_vars

\* C27: every loaded record has its year in the ten years of the query's
\* generation key (0 for a query without dob), at most 9 years from the
\* query's year, and the pre-filter keeps exactly the loaded records of the
\* query's sex whose last name has the Soundex code of the query's
C27_DecadeGateNeverRejects ==
    /\ pc \in {"loaded", "scoring", "done"} =>
          \A i \in 1..Len(records) :
              /\ records[i].dob[3] \in QueryDecade..(QueryDecade + 9)
              /\ query.dob # None => Abs(query.dob[3] - records[i].dob[3]) <= 9
    /\ (pc \in {"scoring", "done"} /\ records # <<>>) =>
          \A i \in 1..Len(records) :
              (\E k \in 1..Len(candidates) : candidates[k] = i)
                 <=> /\ records[i].sex = query.sex
                     /\ aramix_soundex(records[i].last_name)
                           = aramix_soundex(Normalize(query.last_name))

\* a query of 1990 against a record of 1999 that is kept and one of another
\* last name that is dropped
C27_Witness ==
    /\ pc = "done"
    /\ query.dob = <<15, 6, 1990>>
    /\ Len(records) = 2
    /\ records[1].dob[3] = 1999
    /\ candidates = <<1>>
    /\ records[2].sex = query.sex


(***************************************************************************)
(* SpecBest: best_score_against_variations applied to a query string and   *)
(* a field of a record, either as the loader builds it or with a base and  *)
(* up to MaxBestVariations raw variations.                                 *)
(***************************************************************************)
MaxBestLen == 2
MaxBestVariations == 2

BestQueries == StringsUpTo({ALEF, LAM, BEH}, MaxBestLen)

\* raw spellings: with the article, with a diacritic, with a hamza, plain and
\* empty
BestRaws == {<<ALEF, LAM, BEH>>, <<BEH, FATHA>>, <<ALEF_HAMZA_ABOVE, BEH>>, <<LAM>>, <<>>}

InitBest ==
    /\ NoRequest
    /\ fin \in {<<q>> : q \in BestQueries}
    /\ fout = <<>>
    /\ fop = <<>>
    /\ head = <<>>

\* the first-name field of a row as the loader builds it
CallBestLoaded ==
    /\ fop = <<>>
    /\ \E raw \in BestRaws :
          LET id_node == BuildIdentityNode([RowExact EXCEPT !.first = raw])
          IN  /\ fin' = <<fin[1], id_node.first_name, id_node.first_name_variations>>
              /\ fout' = <<best_score_against_variations(fin[1], id_node.first_name,
                                                         id_node.first_name_variations)>>
    /\ fop' = <<"loaded">>
    /\ UNCHANGED <<head, requestVars>>

CallBestGeneral ==
    /\ fop = <<>>
    /\ \E norm_base \in {Normalize(r) : r \in BestRaws},
          variations \in UNION {[1..k -> BestRaws] : k \in 0..MaxBestVariations} :
          /\ fin' = <<fin[1], norm_base, variations>>
          /\ fout' = <<best_score_against_variations(fin[1], norm_base, variations)>>
    /\ fop' = <<"general">>
    /\ UNCHANGED <<head, requestVars>>

NextBest == CallBestLoaded \/ CallBestGeneral

SpecBest == InitBest /\ [][NextBest]_vars

\* the scores of the query string against the base and the normalized
\* variations of a call
ScoresOfCall ==
    {score_pair_with_soundex(fin[1], fin[2])}
        \cup {score_pair_with_soundex(fin[1], Normalize(fin[3][i])) : i \in 1..Len(fin[3])}

\* C28: against a field whose only variation is the raw original of its base
\* the best score is the pair score of the query string and the base, and in
\* every call the best score is the greatest of the pair scores of the query
\* string against the base and against the normalized variations
C28_SeededVariationNeverRaises ==
    fop # <<>> =>
        /\ (Len(fin[3]) = 1 /\ fin[2] = Normalize(fin[3][1])) =>
              fout[1] = score_pair_with_soundex(fin[1], fin[2])
        /\ fout[1] \in ScoresOfCall
        /\ \A s \in ScoresOfCall : ~ RLess(fout[1], s)

\* a loaded field whose raw original starts with the article, against a query
\* string that is nearer to the raw original than to the base
C28_Witness ==
    /\ fop = <<"loaded">>
    /\ fin = <<(<<ALEF, LAM>>), (<<BEH>>), <<(<<ALEF, LAM, BEH>>)>>>>
    /\ RLess(fout[1], score_pair_with_soundex(fin[1], fin[3][1]))


(***************************************************************************)
(* SpecStrip: the Normalizer applied to a string over the letters of the   *)
(* six prefixes.                                                           *)
(***************************************************************************)
MaxStripLen == 4

StripAlphabet == {ALEF, ALEF_HAMZA_ABOVE, LAM, BEH, NOON, TEH, WAW, MEEM, FATHA}

InitStrip ==
    /\ NoRequest
    /\ fin \in StringsUpTo(StripAlphabet, MaxStripLen)
    /\ fout = <<>>
    /\ fop = <<>>
    /\ head = <<>>

CallNormalizeFn ==
    /\ fop = <<>>
    /\ fout' = <<Normalize(fin)>>
    /\ fop' = <<"normalize_fn">>
    /\ UNCHANGED <<fin, head, requestVars>>

NextStrip == CallNormalizeFn

SpecStrip == InitStrip /\ [][NextStrip]_vars

\* the string without diacritics and with its letters unified
Unified(s) == normalize_arabic(remove_diacritics(s))

\* C29: the result is the unified string, whole or without one of the first
\* three prefixes at its start; a string that starts with beh-noon-teh loses
\* the beh-noon only, and one that starts with hamza-alef-beh-waw or with
\* hamza-alef-meem keeps every letter
C29_OnlyFirstThreePrefixes ==
    fop = <<"normalize_fn">> =>
        /\ \/ fout[1] = Unified(fin)
           \/ \E i \in 1..3 : Unified(fin) = prefixes[i] \o fout[1]
        /\ starts_with(fin, prefixes[4]) =>
              fout[1] = <<TEH>> \o Unified(SubSeq(fin, 4, Len(fin)))
        /\ (starts_with(fin, prefixes[5]) \/ starts_with(fin, prefixes[6])) =>
              /\ fout[1] = Unified(fin)
              /\ Head(fout[1]) = ALEF

\* beh-noon-teh-meem becomes teh-meem
C29_Witness ==
    /\ fop = <<"normalize_fn">>
    /\ fin = <<BEH, NOON, TEH, MEEM>>
    /\ fout = <<(<<TEH, MEEM>>)>>


(***************************************************************************)
(* Completeness of the top three (SpecRanking).                            *)
(***************************************************************************)
\* the candidates whose total_score reaches the threshold
OverThreshold == {k \in 1..Len(candidates) : ScoredCandidates[k].total_score >= THRESHOLD}

\* the ways to read the response as a choice of distinct candidates
ChoicesOfResponse ==
    {c \in [1..Len(response.body) -> 1..Len(candidates)] :
        /\ \A x, y \in 1..Len(response.body) : x # y => c[x] # c[y]
        /\ \A x \in 1..Len(response.body) : response.body[x] = ScoredCandidates[c[x]]}

\* C30: the response holds min(3, n) entries, n being the number of candidates
\* of total_score >= 75; they are the results of distinct candidates, and no
\* candidate left out has a total_score greater than that of a returned entry
C30_TopKComplete ==
    Answered =>
        /\ Len(response.body) = Min2(TOP_K, Cardinality(OverThreshold))
        /\ \E c \in ChoicesOfResponse :
              \A k \in 1..Len(candidates) :
                  (\A x \in 1..Len(response.body) : c[x] # k) =>
                      \A x \in 1..Len(response.body) :
                          ScoredCandidates[k].total_score <= response.body[x].total_score

\* four candidates over the threshold, not all of one score: three are
\* returned and the one left out has the lowest score
C30_Witness ==
    /\ Answered
    /\ Cardinality(OverThreshold) = 4
    /\ Len(response.body) = 3
    /\ response.body[1].total_score > response.body[2].total_score
    /\ \E k \in OverThreshold :
          ScoredCandidates[k].total_score < response.body[1].total_score

=============================================================================
